---- MODULE Spec2Model ----
(***************************************************************************)
(* Retrieval-augmented turn pipeline of heygen-avatar.                     *)
(*                                                                         *)
(*   SpecVoice  - the session event handlers of InteractiveAvatar          *)
(*                (USER_START / USER_TALKING_MESSAGE / USER_STOP /         *)
(*                USER_END_MESSAGE) and their searchKnowledge calls        *)
(*   SpecRoute  - POST /api/knowledge-search                               *)
(*   SpecText   - TextInput.handleSend                                     *)
(*   SpecChunk  - splitText of the ingestion script                        *)
(*   SpecIngest - main of the two ingestion scripts                        *)
(*   SpecPick   - the utterance text chosen by USER_END_MESSAGE            *)
(*                                                                         *)
(* Text is a sequence of one-character tokens.  "SP" and "NL" are the      *)
(* white-space characters; "LB" "K1" "K2" "K3" "K4" "RB" stand for the     *)
(* characters of the marker written in the source as a bracketed four-     *)
(* character label.  The empty sequence is the falsy string: undefined,    *)
(* null and '' behave alike under || and if().                             *)
(***************************************************************************)
EXTENDS Integers, Sequences, FiniteSets, TLC

VARIABLES
  \* ---- InteractiveAvatar (src/unnamed/part_000)
  session,             \* "inactive" | "starting" | "active" | "failed"
  isVoice,             \* argument of startSessionV2, closed over by the handlers
  lastUserMessageRef,  \* useRef<string>("")
  turn,                \* number of USER_START events so far (the logical turn)
  stopFired,           \* USER_STOP already delivered in this turn
  endFired,            \* USER_END_MESSAGE already delivered in this turn
  calls,               \* every searchKnowledge call made by a handler, in order
  speakLog,            \* every avatar.speak call, in order
  interim,             \* the last non-empty text an interim transcript of this turn carried
  \* ---- POST /api/knowledge-search (route.ts)
  rPc,                 \* where POST stands: "start" "text" "embed" "query" "done"
  rKeys,               \* which of PINECONE_API_KEY / OPENAI_API_KEY are set
  rReq,                \* the request body the caller sent
  rQuery,              \* const query
  rMatches,            \* searchResults.matches
  rResp,               \* the Response returned
  rThrown,             \* an exception left POST
  rFault,              \* the internal failure met, "none" when there was none
  embedCalls,          \* calls of openaiClient.embeddings.create
  queryCalls,          \* calls of index.query
  \* ---- TextInput (TextInput.tsx)
  message,             \* useState("")
  taskType,            \* "talk" | "repeat"
  taskMode,            \* "sync" | "async"
  isSearching,         \* useState(false)
  sends,               \* every call of sendMessage* / repeatMessage*, in order
  tCalls,              \* every handleSend invocation, in order
  tErr,                \* an exception left handleSend
  \* ---- splitText (setup-pinecone-data copy.js)
  spPc,                \* "call" | "loop" | "done"
  spText, spSize, spOverlap,   \* the arguments
  spI,                 \* let i
  spChunks,            \* const chunks
  spIter,              \* executions of the loop body so far
  \* ---- ingestion scripts (setup-pinecone-data copy.js, setup-pinecone-data.ts)
  gScript,             \* "folder" (copy.js) or "samples" (.ts)
  gPc,                 \* the await at which main stands, "done" or "failed"
  gIndexExists,        \* the vector store has the index
  gOps,                \* the calls of the vector store that completed, in order
  gFolder,             \* what readdirSync(DOCUMENTS_FOLDER) returns
  gFiles,              \* const files
  gFile,               \* position of `file` (or `doc`) in the loop, from 1
  gChunks,             \* const chunks of the file at hand
  gChunk,              \* let i of the chunk loop
  gVectors,            \* const vectors
  gBatch,              \* let i of the upsert loop
  gReport,             \* what the run printed last: the count or the fatal error
  gSeen,               \* the files main has extracted, with what the extractor gave
  \* ---- the utterance text of USER_END_MESSAGE (src/unnamed/part_000)
  umPc,                \* "call" | "done"
  umDetailMessage,     \* event.detail.message
  umDetailText,        \* event.detail.text
  umEventMessage,      \* event.message
  umBuffer,            \* lastUserMessageRef.current
  umResult             \* const userMessage

voiceVars == <<session, isVoice, lastUserMessageRef, turn, stopFired, endFired,
               calls, speakLog, interim>>
routeVars == <<rPc, rKeys, rReq, rQuery, rMatches, rResp, rThrown, rFault,
               embedCalls, queryCalls>>
textVars  == <<message, taskType, taskMode, isSearching, sends, tCalls, tErr>>
chunkVars == <<spPc, spText, spSize, spOverlap, spI, spChunks, spIter>>
ingestVars == <<gScript, gPc, gIndexExists, gOps, gFolder, gFiles, gFile, gChunks,
               gChunk, gVectors, gBatch, gReport, gSeen>>
pickVars == <<umPc, umDetailMessage, umDetailText, umEventMessage, umBuffer, umResult>>
vars == <<voiceVars, routeVars, textVars, chunkVars, ingestVars, pickVars>>

(***************************************************************************)
(* Strings                                                                 *)
(***************************************************************************)
Empty == << >>

\* JavaScript truthiness of a string
Truthy(s) == s # Empty

\* a || b on strings
OrElse(a, b) == IF Truthy(a) THEN a ELSE b

IsSpace(c) == c \in {"SP", "NL"}

RECURSIVE TrimStart(_)
TrimStart(s) ==
  IF s = Empty THEN s
  ELSE IF IsSpace(Head(s)) THEN TrimStart(Tail(s)) ELSE s

RECURSIVE TrimEnd(_)
TrimEnd(s) ==
  IF s = Empty THEN s
  ELSE IF IsSpace(s[Len(s)]) THEN TrimEnd(SubSeq(s, 1, Len(s) - 1)) ELSE s

\* String.prototype.trim
Trim(s) == TrimEnd(TrimStart(s))

Min(a, b) == IF a < b THEN a ELSE b
Max(a, b) == IF a > b THEN a ELSE b

\* String.prototype.slice(start, end), 0-based, end exclusive; a negative
\* index counts from the end of the string
SliceIndex(k, n) == IF k < 0 THEN Max(n + k, 0) ELSE Min(k, n)
Slice(s, start, end) ==
  LET from == SliceIndex(start, Len(s))
      to   == SliceIndex(end, Len(s))
  IN  IF from >= to THEN Empty ELSE SubSeq(s, from + 1, to)

\* all sequences over S of length at most n
SeqsUpTo(S, n) == UNION { [1..k -> S] : k \in 0..n }

(***************************************************************************)
(* Bounds of the model                                                     *)
(***************************************************************************)
\* USER_START events delivered in one session
MaxTurns == 2
\* searchKnowledge calls followed in one session
MaxCalls == 2
\* length of the longest query string a request carries
MaxQueryLen == 1
\* length of the long chunk text a stored record carries
LongLen == 250
\* length of the longest text typed into the input
MaxMsgLen == 1
\* handleSend invocations in one run
MaxSends == 1
\* length of the longest text handed to splitText
MaxTextLen == 3
\* largest size / overlap handed to splitText
MaxSize == 3
\* executions of the loop body of splitText that are followed
MaxIter == 5

(***************************************************************************)
(* InteractiveAvatar: the session event handlers                           *)
(***************************************************************************)
\* message texts an event payload or the transcript buffer can carry
Msgs == { Empty, <<"a">>, <<"b">> }

\* context strings the knowledge-search endpoint can put in its body
Ctxs == { Empty, <<"k">> }

\* what `await response.json()` yields: a rejection, null, or an object
JsonOutcomes ==
  { [kind |-> "reject", success |-> FALSE, context |-> Empty],
    [kind |-> "null",   success |-> FALSE, context |-> Empty] }
  \cup [kind : {"object"}, success : BOOLEAN, context : Ctxs]

\* fetch itself rejected / no search was made
FetchError == [kind |-> "fetchError", success |-> FALSE, context |-> Empty]
NoReply    == [kind |-> "none", success |-> FALSE, context |-> Empty]

\* a searchKnowledge that does not look at data.success
SearchResultIgnoringSuccess(data) ==
  IF data.kind = "object" THEN data.context ELSE Empty

\* searchKnowledge, after response.json(): data.context when data.success
\* and data.context are truthy, '' otherwise and on any exception
SearchResult(data) ==
  IF data.kind = "object" /\ data.success /\ Truthy(data.context)
  THEN data.context
  ELSE Empty

\* the template literal handed to avatar.speak
SpeakText(knowledgeContext) ==
  <<"NL", "NL", "LB", "K1", "K2", "K3", "K4", "RB", ":", "SP">> \o knowledgeContext

\* searchKnowledge(query) is entered: fetch is issued and awaited
NewCall(handler, query) ==
  [handler |-> handler, turn |-> turn, query |-> query,
   stage |-> "fetch", context |-> Empty]

\* the newest turn for which a retrieval has been started
NewestSearchTurn ==
  IF calls = << >> THEN 0 ELSE calls[Len(calls)].turn

\* a USER_STOP handler without the `if (knowledgeContext)` test
SpeaksAfterSearchAlways(handler, knowledgeContext) ==
  handler = "USER_STOP"

\* the handler resumes after `await searchKnowledge(userMessage)` with the
\* value returned; USER_STOP speaks a truthy context, USER_END_MESSAGE only logs
SpeaksAfterSearch(handler, knowledgeContext) ==
  handler = "USER_STOP" /\ Truthy(knowledgeContext)

Resume(id, knowledgeContext) ==
  IF SpeaksAfterSearch(calls[id].handler, knowledgeContext)
  THEN /\ calls' = [calls EXCEPT ![id].stage = "speak",
                                 ![id].context = knowledgeContext]
       /\ speakLog' = Append(speakLog,
            [call |-> id, text |-> SpeakText(knowledgeContext),
             turn |-> calls[id].turn, newest |-> NewestSearchTurn])
  ELSE /\ calls' = [calls EXCEPT ![id].stage = "done",
                                 ![id].context = knowledgeContext]
       /\ UNCHANGED speakLog

VoiceInit ==
  /\ session = "inactive"
  /\ isVoice = FALSE
  /\ lastUserMessageRef = Empty
  /\ turn = 0
  /\ stopFired = FALSE
  /\ endFired = FALSE
  /\ calls = << >>
  /\ speakLog = << >>
  /\ interim = Empty

\* startSessionV2(isVoice) up to `await fetchAccessToken()`
StartSessionV2 ==
  /\ UNCHANGED <<routeVars, textVars, chunkVars, ingestVars, pickVars>>
  /\ UNCHANGED interim
  /\ \E v \in BOOLEAN :
    /\ session = "inactive"
    /\ session' = "starting"
    /\ isVoice' = v
    /\ UNCHANGED <<lastUserMessageRef, turn, stopFired, endFired, calls, speakLog>>

\* fetchAccessToken returns: the handlers are registered, or it throws and
\* the catch of startSessionV2 ends the attempt
TokenSettle ==
  /\ UNCHANGED <<routeVars, textVars, chunkVars, ingestVars, pickVars>>
  /\ UNCHANGED interim
  /\ \E ok \in BOOLEAN :
    /\ session = "starting"
    /\ session' = IF ok THEN "active" ELSE "failed"
    /\ UNCHANGED <<isVoice, lastUserMessageRef, turn, stopFired, endFired,
                   calls, speakLog>>

\* a USER_START handler that keeps the buffer while a retrieval is in flight
UserStartKeepsBuffer ==
  /\ UNCHANGED <<routeVars, textVars, chunkVars, ingestVars, pickVars>>
  /\ interim' = Empty
  /\ session = "active"
  /\ turn < MaxTurns
  /\ lastUserMessageRef' =
       IF \E i \in DOMAIN calls : calls[i].stage \in {"fetch", "json"}
       THEN lastUserMessageRef ELSE Empty
  /\ turn' = turn + 1
  /\ stopFired' = FALSE
  /\ endFired' = FALSE
  /\ UNCHANGED <<session, isVoice, calls, speakLog>>

\* avatar.on(USER_START)
UserStart ==
  /\ UNCHANGED <<routeVars, textVars, chunkVars, ingestVars, pickVars>>
  /\ interim' = Empty
  /\ session = "active"
  /\ turn < MaxTurns
  /\ lastUserMessageRef' = Empty
  /\ turn' = turn + 1
  /\ stopFired' = FALSE
  /\ endFired' = FALSE
  /\ UNCHANGED <<session, isVoice, calls, speakLog>>

\* a USER_TALKING_MESSAGE handler whose text also reaches the searches in
\* flight, as if they read the buffer when they are sent
UserTalkingMessageRewritesQuery ==
  /\ UNCHANGED <<routeVars, textVars, chunkVars, ingestVars, pickVars>>
  /\ \E detailMessage \in Msgs, detailText \in Msgs :
    LET msg == OrElse(detailMessage, OrElse(detailText, Empty)) IN
    /\ session = "active"
    /\ turn >= 1
    /\ lastUserMessageRef' = IF Truthy(msg) THEN msg ELSE lastUserMessageRef
    /\ interim' = IF Truthy(msg) THEN msg ELSE interim
    /\ calls' = [n \in DOMAIN calls |->
                   IF calls[n].stage = "fetch" /\ Truthy(msg)
                   THEN [calls[n] EXCEPT !.query = msg] ELSE calls[n]]
    /\ UNCHANGED <<session, isVoice, turn, stopFired, endFired, speakLog>>

\* a USER_TALKING_MESSAGE handler that appends to the buffer
UserTalkingMessageAppends ==
  /\ UNCHANGED <<routeVars, textVars, chunkVars, ingestVars, pickVars>>
  /\ \E detailMessage \in Msgs, detailText \in Msgs :
    LET msg == OrElse(detailMessage, OrElse(detailText, Empty)) IN
    /\ session = "active"
    /\ turn >= 1
    /\ lastUserMessageRef' = lastUserMessageRef \o msg
    /\ interim' = IF Truthy(msg) THEN msg ELSE interim
    /\ UNCHANGED <<session, isVoice, turn, stopFired, endFired, calls, speakLog>>

\* avatar.on(USER_TALKING_MESSAGE)
UserTalkingMessage ==
  /\ UNCHANGED <<routeVars, textVars, chunkVars, ingestVars, pickVars>>
  /\ \E detailMessage \in Msgs, detailText \in Msgs :
    LET msg == OrElse(detailMessage, OrElse(detailText, Empty)) IN
    /\ session = "active"
    /\ turn >= 1
    /\ lastUserMessageRef' = IF Truthy(msg) THEN msg ELSE lastUserMessageRef
    /\ interim' = IF Truthy(msg) THEN msg ELSE interim
    /\ UNCHANGED <<session, isVoice, turn, stopFired, endFired, calls, speakLog>>

\* avatar.on(USER_STOP), up to its first await
UserStop ==
  /\ UNCHANGED <<routeVars, textVars, chunkVars, ingestVars, pickVars>>
  /\ UNCHANGED interim
  /\ session = "active"
  /\ turn >= 1
  /\ ~stopFired
  /\ (isVoice /\ Truthy(lastUserMessageRef)) => Len(calls) < MaxCalls
  /\ stopFired' = TRUE
  /\ calls' = IF isVoice /\ Truthy(lastUserMessageRef)
              THEN Append(calls, NewCall("USER_STOP", lastUserMessageRef))
              ELSE calls
  /\ UNCHANGED <<session, isVoice, lastUserMessageRef, turn, endFired, speakLog>>

\* an utterance text that prefers the buffer to the payload
UserMessageBufferFirst(detailMessage, detailText, eventMessage, buffer) ==
  OrElse(buffer,
    OrElse(detailMessage,
      OrElse(detailText, OrElse(eventMessage, Empty))))

\* event?.detail?.message || event?.detail?.text || event?.message ||
\* lastUserMessageRef.current || ''
UserMessage(detailMessage, detailText, eventMessage, buffer) ==
  OrElse(detailMessage,
    OrElse(detailText,
      OrElse(eventMessage, OrElse(buffer, Empty))))

\* a USER_END_MESSAGE handler that searches in text-only sessions too
UserEndMessageAnyMode ==
  /\ UNCHANGED <<routeVars, textVars, chunkVars, ingestVars, pickVars>>
  /\ UNCHANGED interim
  /\ \E detailMessage \in Msgs, detailText \in Msgs, eventMessage \in Msgs :
    LET userMessage ==
          UserMessage(detailMessage, detailText, eventMessage, lastUserMessageRef)
    IN
    /\ session = "active"
    /\ turn >= 1
    /\ ~endFired
    /\ Truthy(userMessage) => Len(calls) < MaxCalls
    /\ endFired' = TRUE
    /\ calls' = IF Truthy(userMessage)
                THEN Append(calls, NewCall("USER_END_MESSAGE", userMessage))
                ELSE calls
    /\ UNCHANGED <<session, isVoice, lastUserMessageRef, turn, stopFired, speakLog>>

\* avatar.on(USER_END_MESSAGE), up to its first await
UserEndMessage ==
  /\ UNCHANGED <<routeVars, textVars, chunkVars, ingestVars, pickVars>>
  /\ UNCHANGED interim
  /\ \E detailMessage \in Msgs, detailText \in Msgs, eventMessage \in Msgs :
    LET userMessage ==
          UserMessage(detailMessage, detailText, eventMessage, lastUserMessageRef)
    IN
    /\ session = "active"
    /\ turn >= 1
    /\ ~endFired
    /\ (Truthy(userMessage) /\ isVoice) => Len(calls) < MaxCalls
    /\ endFired' = TRUE
    /\ calls' = IF Truthy(userMessage) /\ isVoice
                THEN Append(calls, NewCall("USER_END_MESSAGE", userMessage))
                ELSE calls
    /\ UNCHANGED <<session, isVoice, lastUserMessageRef, turn, stopFired, speakLog>>

\* searchKnowledge: `await fetch(...)` settles; a rejection is caught and
\* '' is returned to the handler
FetchSettle ==
  /\ UNCHANGED <<routeVars, textVars, chunkVars, ingestVars, pickVars>>
  /\ UNCHANGED interim
  /\ \E id \in DOMAIN calls, ok \in BOOLEAN :
    /\ calls[id].stage = "fetch"
    /\ IF ok
       THEN /\ calls' = [calls EXCEPT ![id].stage = "json"]
            /\ UNCHANGED speakLog
       ELSE Resume(id, Empty)
    /\ UNCHANGED <<session, isVoice, lastUserMessageRef, turn, stopFired, endFired>>

\* searchKnowledge: `await response.json()` settles and the handler resumes
JsonSettle ==
  /\ UNCHANGED <<routeVars, textVars, chunkVars, ingestVars, pickVars>>
  /\ UNCHANGED interim
  /\ \E id \in DOMAIN calls, data \in JsonOutcomes :
    /\ calls[id].stage = "json"
    /\ Resume(id, SearchResult(data))
    /\ UNCHANGED <<session, isVoice, lastUserMessageRef, turn, stopFired, endFired>>

\* `await avatar.speak(...)` settles; a rejection is caught and logged
SpeakSettle ==
  /\ UNCHANGED <<routeVars, textVars, chunkVars, ingestVars, pickVars>>
  /\ UNCHANGED interim
  /\ \E id \in DOMAIN calls :
    /\ calls[id].stage = "speak"
    /\ calls' = [calls EXCEPT ![id].stage = "done"]
    /\ UNCHANGED <<session, isVoice, lastUserMessageRef, turn, stopFired, endFired,
                   speakLog>>

VoiceNext ==
  \/ StartSessionV2
  \/ TokenSettle
  \/ UserStart
  \/ UserTalkingMessage
  \/ UserStop
  \/ UserEndMessage
  \/ FetchSettle
  \/ JsonSettle
  \/ SpeakSettle

(***************************************************************************)
(* POST /api/knowledge-search                                              *)
(***************************************************************************)
\* topK of index.query
TopK == 3
\* the relevance threshold 0.1; scores are counted in hundredths
Threshold == 10
\* context.slice(0, 500)
MaxContext == 500

QueryStrings == SeqsUpTo({"SP", "a"}, MaxQueryLen)

\* a field of the parsed body: a string, or a truthy value that is no string
\* (a number, an object); falsy values of any type behave as ''
BodyFields == [str : {TRUE}, v : QueryStrings] \cup { [str |-> FALSE, v |-> <<"1">>] }

\* the request: request.text() rejects, yields '', yields text JSON.parse
\* rejects, yields "null", or yields an object
NoField == [str |-> TRUE, v |-> Empty]
Requests ==
  [kind : {"textThrows", "empty", "badJson", "null"}, query : {NoField},
   question : {NoField}]
  \cup [kind : {"object"}, query : BodyFields, question : BodyFields]

Repeat(c, n) == [k \in 1..n |-> c]

\* metadata.text of a stored record: missing, short, long
TextPool == { Empty, <<"x">>, Repeat("y", LongLen) }
TextChars == {"x", "y"}

\* match.score as the store reports it, in hundredths: below, at and above the
\* threshold; hasScore = FALSE is a match without score (a score of 0 is
\* mapped like a missing one)
Scores == {5, 10, 82}
Matches ==
  [hasScore : {TRUE}, score : Scores, text : TextPool]
  \cup [hasScore : {FALSE}, score : {0}, text : TextPool]

MatchLists == SeqsUpTo(Matches, TopK)

NoResp == [status |-> 0, success |-> FALSE, context |-> Empty, sources |-> << >>]

Digit(d) ==
  CASE d = 0 -> "0" [] d = 1 -> "1" [] d = 2 -> "2" [] d = 3 -> "3" [] d = 4 -> "4"
    [] d = 5 -> "5" [] d = 6 -> "6" [] d = 7 -> "7" [] d = 8 -> "8" [] d = 9 -> "9"

\* the decimal digits of n >= 0, as a template literal prints them
RECURSIVE IntToStr(_)
IntToStr(n) == IF n < 10 THEN <<Digit(n)>> ELSE IntToStr(n \div 10) \o <<Digit(n % 10)>>

\* searchResults.matches.map(...): score || 0, metadata.text || ''
\* (metadata.source is copied through and plays no part in the context)
KnowledgeItem(match) ==
  [score |-> IF match.hasScore /\ match.score # 0 THEN match.score ELSE 0,
   text  |-> OrElse(match.text, Empty)]

KnowledgeItems(matches) == [k \in DOMAIN matches |-> KnowledgeItem(matches[k])]

\* a filter that keeps every non-negative score
RelevantNonNegative(item) == item.score >= 0

\* .filter(item => item.score > 0.1)
Relevant(item) == item.score > Threshold

RECURSIVE Filter(_)
Filter(items) ==
  IF items = << >> THEN << >>
  ELSE IF Relevant(Head(items)) THEN <<Head(items)>> \o Filter(Tail(items))
       ELSE Filter(Tail(items))

\* a marker numbered with index itself, from 0
EntryZeroBased(item, index) ==
  <<"NL", "NL", "LB", "K1", "K2", "K3", "K4">> \o IntToStr(index)
    \o <<"RB", ":", "SP">> \o item.text

\* .map((item, index) => marker with index + 1, then item.text)
Entry(item, index) ==
  <<"NL", "NL", "LB", "K1", "K2", "K3", "K4">> \o IntToStr(index + 1)
    \o <<"RB", ":", "SP">> \o item.text

\* .join('\n')
RECURSIVE Join(_)
Join(parts) ==
  IF parts = << >> THEN Empty
  ELSE IF Len(parts) = 1 THEN parts[1]
       ELSE parts[1] \o <<"NL">> \o Join(Tail(parts))

FullContext(items) ==
  LET kept == Filter(items)
  IN  Join([k \in DOMAIN kept |-> Entry(kept[k], k - 1)])

\* the context without slice()
TruncateNone(context) == context

\* context.slice(0, 500)
Truncate(context) == Slice(context, 0, MaxContext)

SuccessResponse(items) ==
  [status |-> 200, success |-> TRUE, context |-> Truncate(FullContext(items)),
   sources |-> items]

\* the body of both early returns and of the catch
FailureResponse ==
  [status |-> 200, success |-> FALSE, context |-> Empty, sources |-> << >>]

\* the check without trim()
IsBlankQueryNoTrim(query) == ~Truthy(query)

\* if (!query.trim())
IsBlankQuery(query) == ~Truthy(Trim(query))

\* const query = body.query || body.question || ''
QueryField(req) ==
  IF Truthy(req.query.v) THEN req.query
  ELSE IF Truthy(req.question.v) THEN req.question ELSE NoField

RouteInit ==
  /\ rPc = "start"
  /\ rKeys \in [pinecone : BOOLEAN, openai : BOOLEAN]
  /\ rReq \in Requests
  /\ rQuery = Empty
  /\ rMatches = << >>
  /\ rResp = NoResp
  /\ rThrown = FALSE
  /\ rFault = "none"
  /\ embedCalls = 0
  /\ queryCalls = 0

\* return new Response(...) from inside the try
Respond(resp) ==
  /\ rResp' = resp
  /\ rPc' = "done"
  /\ UNCHANGED rThrown

\* a catch block that rethrows
CatchRethrow(fault) ==
  /\ rResp' = NoResp
  /\ rPc' = "done"
  /\ rFault' = fault
  /\ rThrown' = TRUE

\* catch (error): the fallback Response
Catch(fault) ==
  /\ rResp' = FailureResponse
  /\ rPc' = "done"
  /\ rFault' = fault
  /\ UNCHANGED rThrown

\* the API-key check, initClients(), up to `await request.text()`
RouteStart ==
  /\ UNCHANGED <<voiceVars, textVars, chunkVars, ingestVars, pickVars>>
  /\ rPc = "start"
  /\ IF ~rKeys.pinecone \/ ~rKeys.openai
     THEN /\ Respond(FailureResponse)
          /\ rFault' = "keys"
     ELSE /\ rPc' = "text"
          /\ UNCHANGED <<rResp, rThrown, rFault>>
  /\ UNCHANGED <<rKeys, rReq, rQuery, rMatches, embedCalls, queryCalls>>

\* request.text() settles, the body is parsed, the query is read and checked,
\* and embeddings.create is called
RouteBody ==
  /\ UNCHANGED <<voiceVars, textVars, chunkVars, ingestVars, pickVars>>
  /\ rPc = "text"
  /\ IF rReq.kind = "null"
     THEN \* body.query on null: TypeError
          /\ Catch("type")
          /\ UNCHANGED <<rQuery, embedCalls>>
     ELSE LET body  == IF rReq.kind = "object" THEN rReq
                       ELSE [kind |-> "object", query |-> NoField, question |-> NoField]
              field == QueryField(body)
          IN  IF ~field.str
              THEN \* query.trim is not a function
                   /\ Catch("type")
                   /\ UNCHANGED <<rQuery, embedCalls>>
              ELSE /\ rQuery' = field.v
                   /\ IF IsBlankQuery(field.v)
                      THEN /\ Respond(FailureResponse)
                           /\ rFault' = IF rReq.kind \in {"textThrows", "badJson"}
                                        THEN "body" ELSE "none"
                           /\ UNCHANGED embedCalls
                      ELSE /\ rPc' = "embed"
                           /\ embedCalls' = embedCalls + 1
                           /\ UNCHANGED <<rResp, rThrown, rFault>>
  /\ UNCHANGED <<rKeys, rReq, rMatches, queryCalls>>

\* embeddings.create settles; index.query is called with the vector
RouteEmbed ==
  /\ UNCHANGED <<voiceVars, textVars, chunkVars, ingestVars, pickVars>>
  /\ \E ok \in BOOLEAN :
    /\ rPc = "embed"
    /\ IF ok
       THEN /\ rPc' = "query"
            /\ queryCalls' = queryCalls + 1
            /\ UNCHANGED <<rResp, rThrown, rFault>>
       ELSE /\ Catch("embed")
            /\ UNCHANGED queryCalls
    /\ UNCHANGED <<rKeys, rReq, rQuery, rMatches, embedCalls>>

\* index.query settles; the context is assembled and returned
RouteQuery ==
  /\ UNCHANGED <<voiceVars, textVars, chunkVars, ingestVars, pickVars>>
  /\ \E ok \in BOOLEAN, matches \in MatchLists :
    /\ rPc = "query"
    /\ IF ok
       THEN /\ rMatches' = matches
            /\ Respond(SuccessResponse(KnowledgeItems(matches)))
            /\ UNCHANGED rFault
       ELSE /\ matches = << >>
            /\ Catch("query")
            /\ UNCHANGED rMatches
    /\ UNCHANGED <<rKeys, rReq, rQuery, embedCalls, queryCalls>>

RouteNext ==
  \/ RouteStart
  \/ RouteBody
  \/ RouteEmbed
  \/ RouteQuery

(***************************************************************************)
(* TextInput: handleSend                                                   *)
(***************************************************************************)
InputTexts == SeqsUpTo({"SP", "a"}, MaxMsgLen)

\* the label between the message and the context in the template literal:
\* fifteen characters and a colon
LabelText ==
  <<"L1", "L2", "L3", "L4", "L5", "L6", "L7", "L8", "L9", "L10", "L11", "L12",
    "L13", "L14", "L15", ":">>

\* `${message}\n\n<label>\n${knowledgeContext}`
Enhanced(msg, knowledgeContext) ==
  msg \o <<"NL", "NL">> \o LabelText \o <<"NL">> \o knowledgeContext

\* a finalMessage that is never replaced by the enhanced text
FinalMessageOriginal(msg, knowledgeContext) == msg

\* let finalMessage = message; if (knowledgeContext) finalMessage = ...
FinalMessage(msg, knowledgeContext) ==
  IF Truthy(knowledgeContext) THEN Enhanced(msg, knowledgeContext) ELSE msg

\* the send function chosen by taskType and taskMode
SendFn(type, mode) ==
  IF type = "talk"
  THEN IF mode = "sync" THEN "sendMessageSync" ELSE "sendMessage"
  ELSE IF mode = "sync" THEN "repeatMessageSync" ELSE "repeatMessage"

TextInit ==
  /\ message = Empty
  /\ taskType = "talk"
  /\ taskMode = "async"
  /\ isSearching = FALSE
  /\ sends = << >>
  /\ tCalls = << >>
  /\ tErr = FALSE

\* Input onChange
SetMessage ==
  /\ UNCHANGED <<voiceVars, routeVars, chunkVars, ingestVars, pickVars>>
  /\ \E m \in InputTexts :
    /\ message' = m
    /\ UNCHANGED <<taskType, taskMode, isSearching, sends, tCalls, tErr>>

\* Select onSelect
SetTaskType ==
  /\ UNCHANGED <<voiceVars, routeVars, chunkVars, ingestVars, pickVars>>
  /\ \E t \in {"talk", "repeat"} :
    /\ taskType' = t
    /\ UNCHANGED <<message, taskMode, isSearching, sends, tCalls, tErr>>

SetTaskMode ==
  /\ UNCHANGED <<voiceVars, routeVars, chunkVars, ingestVars, pickVars>>
  /\ \E m \in {"sync", "async"} :
    /\ taskMode' = m
    /\ UNCHANGED <<message, taskType, isSearching, sends, tCalls, tErr>>

\* from the send in the try block to the end of handleSend, for invocation id
\* whose closure holds message / taskType / taskMode; reply is what the search
\* met (TALK only).  throws1: the send in the try block throws; throws2: the
\* send in the catch block throws as well.
SendAndFinish(id, callsNow, reply, throws1, throws2) ==
  LET c     == callsNow[id]
      knowledgeContext == IF c.taskType = "talk" THEN SearchResult(reply) ELSE Empty
      fn    == SendFn(c.taskType, c.taskMode)
      first == [run |-> id, fn |-> fn,
                text |-> FinalMessage(c.message, knowledgeContext)]
      again == [run |-> id, fn |-> fn, text |-> c.message]
  IN  /\ sends' = IF throws1 THEN sends \o <<first, again>> ELSE Append(sends, first)
      /\ message' = IF throws1 /\ throws2 THEN message ELSE Empty
      /\ tErr' = (tErr \/ (throws1 /\ throws2))
      /\ isSearching' = FALSE
      /\ tCalls' = [callsNow EXCEPT ![id].stage = "done",
                                    ![id].reply = reply,
                                    ![id].context = knowledgeContext]

\* handleSend, up to its first await or, without one, to its end
HandleSend ==
  /\ UNCHANGED <<voiceVars, routeVars, chunkVars, ingestVars, pickVars>>
  /\ \E throws1 \in BOOLEAN, throws2 \in BOOLEAN :
    LET id == Len(tCalls) + 1
        c  == [message |-> message, taskType |-> taskType, taskMode |-> taskMode,
               stage |-> "fetch", reply |-> NoReply, context |-> Empty]
    IN
    /\ ~isSearching
    /\ Len(tCalls) < MaxSends
    /\ IF Trim(message) = Empty
       THEN /\ throws1 = FALSE /\ throws2 = FALSE
            /\ tCalls' = Append(tCalls, [c EXCEPT !.stage = "blank"])
            /\ UNCHANGED <<message, isSearching, sends, tErr>>
       ELSE IF taskType = "talk"
            THEN /\ throws1 = FALSE /\ throws2 = FALSE
                 /\ isSearching' = TRUE
                 /\ tCalls' = Append(tCalls, c)
                 /\ UNCHANGED <<message, sends, tErr>>
            ELSE /\ (throws2 => throws1)
                 /\ SendAndFinish(id, Append(tCalls, c), NoReply, throws1, throws2)
    /\ UNCHANGED <<taskType, taskMode>>

\* searchKnowledge: `await fetch(...)` settles; a rejection is caught, '' is
\* returned and handleSend goes on to send
TextFetchSettle ==
  /\ UNCHANGED <<voiceVars, routeVars, chunkVars, ingestVars, pickVars>>
  /\ \E id \in DOMAIN tCalls, ok \in BOOLEAN, throws1 \in BOOLEAN, throws2 \in BOOLEAN :
    /\ tCalls[id].stage = "fetch"
    /\ IF ok
       THEN /\ throws1 = FALSE /\ throws2 = FALSE
            /\ tCalls' = [tCalls EXCEPT ![id].stage = "json"]
            /\ UNCHANGED <<message, isSearching, sends, tErr>>
       ELSE /\ (throws2 => throws1)
            /\ SendAndFinish(id, tCalls, FetchError, throws1, throws2)
    /\ UNCHANGED <<taskType, taskMode>>

\* searchKnowledge: `await response.json()` settles and handleSend goes on
TextJsonSettle ==
  /\ UNCHANGED <<voiceVars, routeVars, chunkVars, ingestVars, pickVars>>
  /\ \E id \in DOMAIN tCalls, data \in JsonOutcomes,
     throws1 \in BOOLEAN, throws2 \in BOOLEAN :
    /\ tCalls[id].stage = "json"
    /\ (throws2 => throws1)
    /\ SendAndFinish(id, tCalls, data, throws1, throws2)
    /\ UNCHANGED <<taskType, taskMode>>

TextNext ==
  \/ SetMessage
  \/ SetTaskType
  \/ SetTaskMode
  \/ HandleSend
  \/ TextFetchSettle
  \/ TextJsonSettle

(***************************************************************************)
(* splitText                                                               *)
(***************************************************************************)
ChunkTexts == SeqsUpTo({"SP", "a", "b"}, MaxTextLen)

ChunkInit ==
  /\ spPc = "call"
  /\ spText \in ChunkTexts
  /\ spSize \in 1..MaxSize
  /\ spOverlap \in 0..MaxSize
  /\ spI = 0
  /\ spChunks = << >>
  /\ spIter = 0

\* const chunks = []; let i = 0
SplitCall ==
  /\ UNCHANGED <<voiceVars, routeVars, textVars, ingestVars, pickVars>>
  /\ spPc = "call"
  /\ spPc' = "loop"
  /\ spI' = 0
  /\ spChunks' = << >>
  /\ UNCHANGED <<spText, spSize, spOverlap, spIter>>

\* a loop body that advances by size, forgetting the overlap
SplitStepNoOverlap ==
  /\ UNCHANGED <<voiceVars, routeVars, textVars, ingestVars, pickVars>>
  /\ spPc = "loop"
  /\ spI < Len(spText)
  /\ spIter < MaxIter
  /\ LET chunk == Trim(Slice(spText, spI, spI + spSize))
     IN  spChunks' = IF Truthy(chunk) THEN Append(spChunks, chunk) ELSE spChunks
  /\ spI' = spI + spSize
  /\ spIter' = spIter + 1
  /\ UNCHANGED <<spPc, spText, spSize, spOverlap>>

\* one execution of the body of while (i < text.length)
SplitStep ==
  /\ UNCHANGED <<voiceVars, routeVars, textVars, ingestVars, pickVars>>
  /\ spPc = "loop"
  /\ spI < Len(spText)
  /\ spIter < MaxIter
  /\ LET chunk == Trim(Slice(spText, spI, spI + spSize))
     IN  spChunks' = IF Truthy(chunk) THEN Append(spChunks, chunk) ELSE spChunks
  /\ spI' = spI + (spSize - spOverlap)
  /\ spIter' = spIter + 1
  /\ UNCHANGED <<spPc, spText, spSize, spOverlap>>

\* the loop condition fails: return chunks
SplitReturn ==
  /\ UNCHANGED <<voiceVars, routeVars, textVars, ingestVars, pickVars>>
  /\ spPc = "loop"
  /\ ~(spI < Len(spText))
  /\ spPc' = "done"
  /\ UNCHANGED <<spText, spSize, spOverlap, spI, spChunks, spIter>>

ChunkNext ==
  \/ SplitCall
  \/ SplitStep
  \/ SplitReturn

(***************************************************************************)
(* Ingestion: main of setup-pinecone-data copy.js (the documents folder)   *)
(* and of setup-pinecone-data.ts (the sample documents).  A record of the  *)
(* vector store is written without its embedding values.  A file name is   *)
(* its base name and its extension; null is the falsy string.              *)
(***************************************************************************)
CHUNK_SIZE == 100
CHUNK_OVERLAP == 20
UpsertBatch == 100

\* files in the documents folder
MaxFiles == 3
\* chunks in the documents folder
MaxVectors == 102
\* length of a text shorter than CHUNK_SIZE and longer than the stride
MidDocLen == 90
\* length of a text of more than UpsertBatch chunks
LongDocLen == 8001

\* splitText(text, size, overlap) for size > overlap: i runs over the multiples
\* of size - overlap below text.length; the non-empty trimmed windows, in order
WindowCount(text, size, overlap) ==
  (Len(text) + (size - overlap) - 1) \div (size - overlap)
SplitText(text, size, overlap) ==
  SelectSeq([n \in 1..WindowCount(text, size, overlap) |->
               Trim(Slice(text, (n - 1) * (size - overlap),
                                (n - 1) * (size - overlap) + size))],
            Truthy)

\* the documents folder, in the order readdirSync lists it
FolderPool ==
  << [name |-> <<"a">>, ext |-> "pdf"],
     [name |-> <<"a">>, ext |-> "txt"],
     [name |-> <<"b">>, ext |-> "docx"],
     [name |-> <<"c">>, ext |-> "png"] >>

RECURSIVE Pick(_, _)
Pick(pool, keep) ==
  IF pool = << >> THEN << >>
  ELSE (IF Len(pool) \in keep THEN <<pool[Len(pool)]>> ELSE << >>)
       \o Pick(SubSeq(pool, 1, Len(pool) - 1), keep)
RECURSIVE Reverse(_)
Reverse(q) == IF q = << >> THEN << >> ELSE Reverse(Tail(q)) \o <<Head(q)>>
Folders ==
  { Reverse(Pick(FolderPool, keep)) :
      keep \in { k \in SUBSET (1..Len(FolderPool)) : Cardinality(k) <= MaxFiles } }

FileName(file) == file.name \o <<".">> \o <<file.ext>>

\* what an extractor can give: it threw (and returned null) or it read a text
DocTexts ==
  { Empty, <<"SP">>, <<"x">>, Repeat("y", MidDocLen), Repeat("z", LongDocLen) }
Extractions ==
  { [ok |-> FALSE, text |-> Empty] } \cup { [ok |-> TRUE, text |-> t] : t \in DocTexts }

\* the filter of main on the folder listing
Supported(file) == file.ext \in {"pdf", "doc", "docx", "txt"}
SupportedFiles(folder) == SelectSeq(folder, Supported)

\* an extractor returning the text of the error when reading threw
ExtractorReturnsMessage(x) == IF x.ok THEN x.text ELSE <<"e">>
\* extractTextFromPDF / Word / TXT: the text, null when reading threw
Extractor(x) == IF x.ok THEN x.text ELSE Empty
ExtractTextFromFile(file, x) ==
  IF file.ext = "pdf" THEN Extractor(x)
  ELSE IF file.ext \in {"doc", "docx"} THEN Extractor(x)
  ELSE IF file.ext = "txt" THEN Extractor(x)
  ELSE Empty

\* the record pushed for chunk i (from 0) of file
VectorRecord(file, i, chunk) ==
  [id |-> file.name \o <<"_">> \o IntToStr(i + 1),
   source |-> FileName(file),
   text |-> chunk]

SAMPLE_DOCUMENTS ==
  << [id |-> <<"doc_001">>, text |-> <<"t1">>, source |-> <<"heygen_info">>],
     [id |-> <<"doc_002">>, text |-> <<"t2">>, source |-> <<"pinecone_info">>],
     [id |-> <<"doc_003">>, text |-> <<"t3">>, source |-> <<"rag_info">>],
     [id |-> <<"doc_004">>, text |-> <<"t4">>, source |-> <<"embedding_info">>],
     [id |-> <<"doc_005">>, text |-> <<"t5">>, source |-> <<"openai_info">>] >>

StoreOp(op, records) == [op |-> op, records |-> records]
Upserts == SelectSeq(gOps, LAMBDA o : o.op = "upsert")
RECURSIVE Written(_)
Written(ops) ==
  IF ops = << >> THEN 0 ELSE Len(Head(ops).records) + Written(Tail(ops))

NoReport == [kind |-> "none", error |-> "none", hasCount |-> FALSE, count |-> 0]
\* console.log of the number of registered chunks
DoneReport(n) == [kind |-> "done", error |-> "none", hasCount |-> TRUE, count |-> n]
\* console.error(label, e); process.exit(1)
FatalReport(e) == [kind |-> "fatal", error |-> e, hasCount |-> FALSE, count |-> 0]

IngestInit ==
  /\ gScript \in {"folder", "samples"}
  /\ gPc = "listIndexes"
  /\ gIndexExists \in BOOLEAN
  /\ gOps = << >>
  /\ gFolder \in Folders
  /\ gFiles = << >>
  /\ gFile = 0
  /\ gChunks = << >>
  /\ gChunk = 0
  /\ gVectors = << >>
  /\ gBatch = 0
  /\ gReport = NoReport
  /\ gSeen = << >>

\* an exception reaches main().catch
Fatal(e) ==
  /\ gPc' = "failed"
  /\ gReport' = FatalReport(e)

\* setupIndex / setupPineconeIndex: await listIndexes settles
SetupList ==
  /\ UNCHANGED <<voiceVars, routeVars, textVars, chunkVars, pickVars>>
  /\ gPc = "listIndexes"
  /\ \E ok \in BOOLEAN :
       IF ok
       THEN /\ gOps' = Append(gOps, StoreOp("listIndexes", << >>))
            /\ gPc' = IF gIndexExists THEN "index" ELSE "createIndex"
            /\ UNCHANGED gReport
       ELSE /\ Fatal("listIndexes")
            /\ UNCHANGED gOps
  /\ UNCHANGED <<gScript, gIndexExists, gFolder, gFiles, gFile, gChunks, gChunk,
                 gVectors, gBatch,
                 gSeen>>

\* a createIndex after which the script goes on without waiting
SetupCreateNoWait ==
  /\ UNCHANGED <<voiceVars, routeVars, textVars, chunkVars, pickVars>>
  /\ gPc = "createIndex"
  /\ \E ok \in BOOLEAN :
       IF ok
       THEN /\ gOps' = Append(gOps, StoreOp("createIndex", << >>))
            /\ gIndexExists' = TRUE
            /\ gPc' = "index"
            /\ UNCHANGED gReport
       ELSE /\ Fatal("createIndex")
            /\ UNCHANGED <<gOps, gIndexExists>>
  /\ UNCHANGED <<gScript, gFolder, gFiles, gFile, gChunks, gChunk, gVectors, gBatch,
                 gSeen>>

\* await createIndex settles
SetupCreate ==
  /\ UNCHANGED <<voiceVars, routeVars, textVars, chunkVars, pickVars>>
  /\ gPc = "createIndex"
  /\ \E ok \in BOOLEAN :
       IF ok
       THEN /\ gOps' = Append(gOps, StoreOp("createIndex", << >>))
            /\ gIndexExists' = TRUE
            /\ gPc' = "wait"
            /\ UNCHANGED gReport
       ELSE /\ Fatal("createIndex")
            /\ UNCHANGED <<gOps, gIndexExists>>
  /\ UNCHANGED <<gScript, gFolder, gFiles, gFile, gChunks, gChunk, gVectors, gBatch,
                 gSeen>>

\* the timer of the wait after createIndex fires
SetupWait ==
  /\ UNCHANGED <<voiceVars, routeVars, textVars, chunkVars, pickVars>>
  /\ gPc = "wait"
  /\ gOps' = Append(gOps, StoreOp("wait", << >>))
  /\ gPc' = "index"
  /\ UNCHANGED <<gScript, gIndexExists, gFolder, gFiles, gFile, gChunks, gChunk,
                 gVectors, gBatch, gReport,
                 gSeen>>

\* main of copy.js after the file at position k: the next file, or the upsert
\* loop, or the final count when there is nothing to upsert
AfterFile(files, k, vectors) ==
  IF k < Len(files)
  THEN /\ gPc' = "extract"
       /\ gFile' = k + 1
       /\ UNCHANGED gReport
  ELSE /\ gFile' = k
       /\ IF 0 < Len(vectors)
          THEN gPc' = "upsert" /\ UNCHANGED gReport
          ELSE gPc' = "done" /\ gReport' = DoneReport(Len(vectors))

\* main of copy.js resumes with the index: readdirSync, filter, first file
ReadFolder ==
  /\ UNCHANGED <<voiceVars, routeVars, textVars, chunkVars, pickVars>>
  /\ gScript = "folder"
  /\ gPc = "index"
  /\ \E ok \in BOOLEAN :
       IF ok
       THEN /\ gFiles' = SupportedFiles(gFolder)
            /\ AfterFile(SupportedFiles(gFolder), 0, gVectors)
       ELSE /\ Fatal("readdir")
            /\ UNCHANGED <<gFiles, gFile>>
  /\ UNCHANGED <<gScript, gIndexExists, gOps, gFolder, gChunks, gChunk, gVectors,
                 gBatch,
                 gSeen>>

\* await extractTextFromFile settles; if (!text) continue; splitText
ExtractFile ==
  /\ UNCHANGED <<voiceVars, routeVars, textVars, chunkVars, pickVars>>
  /\ gPc = "extract"
  /\ \E x \in Extractions :
     /\ gSeen' = Append(gSeen, [file |-> gFiles[gFile], ok |-> x.ok, text |-> x.text])
     /\ LET text   == ExtractTextFromFile(gFiles[gFile], x)
            chunks == SplitText(text, CHUNK_SIZE, CHUNK_OVERLAP)
        IN  IF ~Truthy(text)
            THEN /\ AfterFile(gFiles, gFile, gVectors)
                 /\ UNCHANGED <<gChunks, gChunk>>
            ELSE /\ Len(gVectors) + Len(chunks) <= MaxVectors
                 /\ gChunks' = chunks
                 /\ gChunk' = 0
                 /\ IF 0 < Len(chunks)
                    THEN gPc' = "embed" /\ UNCHANGED <<gFile, gReport>>
                    ELSE AfterFile(gFiles, gFile, gVectors)
  /\ UNCHANGED <<gScript, gIndexExists, gOps, gFolder, gFiles, gVectors, gBatch>>

\* an embedding step that writes every record to the store as soon as it has
\* its embedding
EmbedChunkThenUpsert ==
  /\ UNCHANGED <<voiceVars, routeVars, textVars, chunkVars, pickVars>>
  /\ gPc = "embed"
  /\ \E ok \in BOOLEAN :
       IF ok
       THEN LET record  == VectorRecord(gFiles[gFile], gChunk, gChunks[gChunk + 1])
                vectors == Append(gVectors, record)
            IN  /\ gVectors' = vectors
                /\ gOps' = Append(gOps, StoreOp("upsert", <<record>>))
                /\ gChunk' = gChunk + 1
                /\ IF gChunk + 1 < Len(gChunks)
                   THEN UNCHANGED <<gPc, gFile, gReport>>
                   ELSE AfterFile(gFiles, gFile, vectors)
       ELSE /\ Fatal("embed")
            /\ UNCHANGED <<gVectors, gChunk, gFile, gOps>>
  /\ UNCHANGED <<gScript, gIndexExists, gFolder, gFiles, gChunks, gBatch, gSeen>>

\* await embed(chunks[i]) settles; vectors.push; i++
EmbedChunk ==
  /\ UNCHANGED <<voiceVars, routeVars, textVars, chunkVars, pickVars>>
  /\ gPc = "embed"
  /\ \E ok \in BOOLEAN :
       IF ok
       THEN LET vectors ==
                  Append(gVectors, VectorRecord(gFiles[gFile], gChunk, gChunks[gChunk + 1]))
            IN  /\ gVectors' = vectors
                /\ gChunk' = gChunk + 1
                /\ IF gChunk + 1 < Len(gChunks)
                   THEN UNCHANGED <<gPc, gFile, gReport>>
                   ELSE AfterFile(gFiles, gFile, vectors)
       ELSE /\ Fatal("embed")
            /\ UNCHANGED <<gVectors, gChunk, gFile>>
  /\ UNCHANGED <<gScript, gIndexExists, gOps, gFolder, gFiles, gChunks, gBatch,
                 gSeen>>

\* an upsert loop whose slices start one record late
UpsertStepOffByOne ==
  /\ UNCHANGED <<voiceVars, routeVars, textVars, chunkVars, pickVars>>
  /\ gPc = "upsert"
  /\ \E ok \in BOOLEAN :
       IF ok
       THEN /\ gOps' = Append(gOps, StoreOp("upsert",
                                Slice(gVectors, gBatch + 1, gBatch + UpsertBatch)))
            /\ gBatch' = gBatch + UpsertBatch
            /\ IF gBatch + UpsertBatch < Len(gVectors)
               THEN UNCHANGED <<gPc, gReport>>
               ELSE gPc' = "done" /\ gReport' = DoneReport(Len(gVectors))
       ELSE /\ Fatal("upsert")
            /\ UNCHANGED <<gOps, gBatch>>
  /\ UNCHANGED <<gScript, gIndexExists, gFolder, gFiles, gFile, gChunks, gChunk,
                 gVectors,
                 gSeen>>

\* await index.upsert(vectors.slice(i, i + 100)) settles; i += 100
UpsertStep ==
  /\ UNCHANGED <<voiceVars, routeVars, textVars, chunkVars, pickVars>>
  /\ gPc = "upsert"
  /\ \E ok \in BOOLEAN :
       IF ok
       THEN /\ gOps' = Append(gOps, StoreOp("upsert",
                                Slice(gVectors, gBatch, gBatch + UpsertBatch)))
            /\ gBatch' = gBatch + UpsertBatch
            /\ IF gBatch + UpsertBatch < Len(gVectors)
               THEN UNCHANGED <<gPc, gReport>>
               ELSE gPc' = "done" /\ gReport' = DoneReport(Len(gVectors))
       ELSE /\ Fatal("upsert")
            /\ UNCHANGED <<gOps, gBatch>>
  /\ UNCHANGED <<gScript, gIndexExists, gFolder, gFiles, gFile, gChunks, gChunk,
                 gVectors,
                 gSeen>>

\* main of the .ts script resumes with the index: uploadDocuments, first doc
SamplesStart ==
  /\ UNCHANGED <<voiceVars, routeVars, textVars, chunkVars, pickVars>>
  /\ gScript = "samples"
  /\ gPc = "index"
  /\ gPc' = "embedText"
  /\ gFile' = 1
  /\ UNCHANGED <<gScript, gIndexExists, gOps, gFolder, gFiles, gChunks, gChunk,
                 gVectors, gBatch, gReport,
                 gSeen>>

\* uploadDocuments: await embedText(doc.text) settles; vectors.push
SamplesEmbed ==
  /\ UNCHANGED <<voiceVars, routeVars, textVars, chunkVars, pickVars>>
  /\ gPc = "embedText"
  /\ \E ok \in BOOLEAN :
       IF ok
       THEN /\ gVectors' = Append(gVectors, SAMPLE_DOCUMENTS[gFile])
            /\ IF gFile < Len(SAMPLE_DOCUMENTS)
               THEN gFile' = gFile + 1 /\ UNCHANGED gPc
               ELSE gPc' = "upsertAll" /\ UNCHANGED gFile
            /\ UNCHANGED gReport
       ELSE /\ Fatal("embed")
            /\ UNCHANGED <<gVectors, gFile>>
  /\ UNCHANGED <<gScript, gIndexExists, gOps, gFolder, gFiles, gChunks, gChunk,
                 gBatch,
                 gSeen>>

\* uploadDocuments: await index.upsert(vectors) settles
SamplesUpsert ==
  /\ UNCHANGED <<voiceVars, routeVars, textVars, chunkVars, pickVars>>
  /\ gPc = "upsertAll"
  /\ \E ok \in BOOLEAN :
       IF ok
       THEN /\ gOps' = Append(gOps, StoreOp("upsert", gVectors))
            /\ gPc' = "describe"
            /\ gReport' = DoneReport(Len(gVectors))
       ELSE /\ Fatal("upsert")
            /\ UNCHANGED gOps
  /\ UNCHANGED <<gScript, gIndexExists, gFolder, gFiles, gFile, gChunks, gChunk,
                 gVectors, gBatch,
                 gSeen>>

\* verifyData: await index.describeIndexStats settles
SamplesVerify ==
  /\ UNCHANGED <<voiceVars, routeVars, textVars, chunkVars, pickVars>>
  /\ gPc = "describe"
  /\ \E ok \in BOOLEAN :
       IF ok
       THEN gPc' = "done" /\ UNCHANGED gReport
       ELSE Fatal("describe")
  /\ UNCHANGED <<gScript, gIndexExists, gOps, gFolder, gFiles, gFile, gChunks,
                 gChunk, gVectors, gBatch,
                 gSeen>>

IngestNext ==
  \/ SetupList
  \/ SetupCreate
  \/ SetupWait
  \/ ReadFolder
  \/ ExtractFile
  \/ EmbedChunk
  \/ UpsertStep
  \/ SamplesStart
  \/ SamplesEmbed
  \/ SamplesUpsert
  \/ SamplesVerify

(***************************************************************************)
(* The utterance text of USER_END_MESSAGE, as a function of the payload    *)
(* and the buffer                                                          *)
(***************************************************************************)
PayloadTexts == {Empty, <<"SP">>, <<"a">>, <<"b">>, <<"c">>, <<"d">>}

PickInit ==
  /\ umPc = "call"
  /\ umDetailMessage \in PayloadTexts
  /\ umDetailText \in PayloadTexts
  /\ umEventMessage \in PayloadTexts
  /\ umBuffer \in PayloadTexts
  /\ umResult = Empty

\* const userMessage = ... of the USER_END_MESSAGE handler
PickUserMessage ==
  /\ UNCHANGED <<voiceVars, routeVars, textVars, chunkVars, ingestVars>>
  /\ umPc = "call"
  /\ umResult' = UserMessage(umDetailMessage, umDetailText, umEventMessage, umBuffer)
  /\ umPc' = "done"
  /\ UNCHANGED <<umDetailMessage, umDetailText, umEventMessage, umBuffer>>

PickNext ==
  \/ PickUserMessage

(***************************************************************************)
(* Specifications: one per component, the other components at rest         *)
(***************************************************************************)
VoiceIdle == VoiceInit
TextIdle  == TextInit
RouteIdle ==
  /\ rPc = "done"
  /\ rKeys = [pinecone |-> FALSE, openai |-> FALSE]
  /\ rReq = [kind |-> "empty", query |-> NoField, question |-> NoField]
  /\ rQuery = Empty
  /\ rMatches = << >>
  /\ rResp = NoResp
  /\ rThrown = FALSE
  /\ rFault = "none"
  /\ embedCalls = 0
  /\ queryCalls = 0
ChunkIdle ==
  /\ spPc = "done"
  /\ spText = Empty
  /\ spSize = 1
  /\ spOverlap = 0
  /\ spI = 0
  /\ spChunks = << >>
  /\ spIter = 0

IngestIdle ==
  /\ gScript = "folder"
  /\ gPc = "done"
  /\ gIndexExists = TRUE
  /\ gOps = << >>
  /\ gFolder = << >>
  /\ gFiles = << >>
  /\ gFile = 0
  /\ gChunks = << >>
  /\ gChunk = 0
  /\ gVectors = << >>
  /\ gBatch = 0
  /\ gReport = NoReport
  /\ gSeen = << >>

PickIdle ==
  /\ umPc = "done"
  /\ umDetailMessage = Empty
  /\ umDetailText = Empty
  /\ umEventMessage = Empty
  /\ umBuffer = Empty
  /\ umResult = Empty

InitVoice == VoiceInit /\ RouteIdle /\ TextIdle /\ ChunkIdle /\ IngestIdle /\ PickIdle
InitRoute == RouteInit /\ VoiceIdle /\ TextIdle /\ ChunkIdle /\ IngestIdle /\ PickIdle
InitText  == TextInit /\ VoiceIdle /\ RouteIdle /\ ChunkIdle /\ IngestIdle /\ PickIdle
InitChunk == ChunkInit /\ VoiceIdle /\ RouteIdle /\ TextIdle /\ IngestIdle /\ PickIdle
InitIngest == IngestInit /\ VoiceIdle /\ RouteIdle /\ TextIdle /\ ChunkIdle /\ PickIdle
InitPick == PickInit /\ VoiceIdle /\ RouteIdle /\ TextIdle /\ ChunkIdle /\ IngestIdle

SpecVoice == InitVoice /\ [][VoiceNext]_vars
SpecRoute == InitRoute /\ [][RouteNext]_vars
SpecText  == InitText /\ [][TextNext]_vars
SpecChunk == InitChunk /\ [][ChunkNext]_vars
SpecIngest == InitIngest /\ [][IngestNext]_vars
SpecPick == InitPick /\ [][PickNext]_vars

(***************************************************************************)
(* Properties                                                              *)
(***************************************************************************)
\* searchKnowledge calls made for turn t
SearchesInTurn(t) == Cardinality({ i \in DOMAIN calls : calls[i].turn = t })

\* C1: in a voice session, a turn with non-empty captured text in which both
\* USER_STOP and USER_END_MESSAGE have fired has invoked the retrieval service
\* exactly once.
C1_OneRetrievalPerTurn ==
  (isVoice /\ stopFired /\ endFired /\ Truthy(lastUserMessageRef))
    => SearchesInTurn(turn) = 1

\* C2: a context is never spoken once a retrieval for a later turn has been
\* started: at every avatar.speak the newest retrieval belongs to the turn
\* whose context is spoken.
C2_NoStaleContextSpoken ==
  \A k \in DOMAIN speakLog : speakLog[k].newest <= speakLog[k].turn

\* the request carries a string query made of white space only (or empty)
BlankRequest ==
  /\ rReq.kind = "object"
  /\ rReq.query.str
  /\ \A k \in DOMAIN rReq.query.v : IsSpace(rReq.query.v[k])
  /\ (rReq.query.v = Empty =>
        /\ rReq.question.str
        /\ \A k \in DOMAIN rReq.question.v : IsSpace(rReq.question.v[k]))

\* C3: a request whose query is empty or white space only is answered with
\* success = false and context "" and never reaches the embedding service or
\* the vector store.
C3_BlankQueryShortCircuits ==
  BlankRequest =>
    /\ embedCalls = 0
    /\ queryCalls = 0
    /\ rPc # "embed" /\ rPc # "query"
    /\ rPc = "done" => (~rResp.success /\ rResp.context = Empty)

C3_Witness ==
  /\ rPc = "done"
  /\ rKeys.pinecone /\ rKeys.openai
  /\ rReq.kind = "object"
  /\ rReq.query = [str |-> TRUE, v |-> <<"SP">>]
  /\ rResp = FailureResponse

\* C4: the context of the response is at most 500 characters long, whatever
\* the query and the matches of the store.
C4_ContextBounded == Len(rResp.context) <= MaxContext

C4_Witness ==
  /\ rPc = "done"
  /\ rResp.success
  /\ Len(rMatches) = TopK
  /\ \A k \in DOMAIN rMatches : rMatches[k].score > Threshold /\ Len(rMatches[k].text) = LongLen
  /\ Len(rResp.context) = MaxContext

Count(c, str) == Cardinality({ k \in DOMAIN str : str[k] = c })

RECURSIVE CountAtOrAbove(_, _)
\* occurrences of character c in the texts of the matches scored at or above
\* the threshold
CountAtOrAbove(c, matches) ==
  IF matches = << >> THEN 0
  ELSE (IF Head(matches).hasScore /\ Head(matches).score >= Threshold
        THEN Count(c, Head(matches).text) ELSE 0)
       + CountAtOrAbove(c, Tail(matches))

\* C5: no match scored below the threshold, and no match without score, puts
\* text into the context: every text character of the context is accounted for
\* by the matches scored at or above the threshold.
C5_NoLowScoreText ==
  rPc = "done" =>
    \A c \in TextChars : Count(c, rResp.context) <= CountAtOrAbove(c, rMatches)

C5_Witness ==
  /\ rPc = "done"
  /\ rResp.success
  /\ Len(rMatches) = 3
  /\ rMatches[1].hasScore /\ rMatches[1].score < Threshold /\ rMatches[1].text = <<"x">>
  /\ ~rMatches[2].hasScore /\ rMatches[2].text = <<"x">>
  /\ rMatches[3].score > Threshold /\ rMatches[3].text = <<"x">>
  /\ Count("x", rResp.context) = 1

\* C6: POST always answers with status 200 and lets no exception out; after
\* any internal failure the body has success = false and context "".
C6_AlwaysOkStatus ==
  /\ ~rThrown
  /\ rPc = "done" => rResp.status = 200
  /\ (rPc = "done" /\ rFault # "none") => (~rResp.success /\ rResp.context = Empty)

C6_Witness ==
  /\ rPc = "done"
  /\ rFault = "query"
  /\ embedCalls = 1 /\ queryCalls = 1
  /\ rResp.status = 200

\* the knowledge search of invocation c failed or came back empty
SearchFailedOrEmpty(c) ==
  \/ c.reply.kind \in {"fetchError", "reject", "null"}
  \/ c.reply.kind = "object" /\ (~c.reply.success \/ c.reply.context = Empty)

\* C7: a TALK invocation of handleSend with a non-blank message whose knowledge
\* search failed or returned nothing sends the message, and sends it unmodified.
C7_FallbackSendsOriginal ==
  \A id \in DOMAIN tCalls :
    (tCalls[id].stage = "done" /\ tCalls[id].taskType = "talk"
       /\ SearchFailedOrEmpty(tCalls[id]))
    => /\ \E k \in DOMAIN sends : sends[k].run = id
       /\ \A k \in DOMAIN sends :
            sends[k].run = id =>
              /\ sends[k].text = tCalls[id].message
              /\ sends[k].fn = SendFn("talk", tCalls[id].taskMode)

C7_Witness ==
  \E id \in DOMAIN tCalls :
    /\ tCalls[id].stage = "done"
    /\ tCalls[id].taskType = "talk"
    /\ tCalls[id].reply = [kind |-> "object", success |-> FALSE, context |-> <<"k">>]
    /\ \E k \in DOMAIN sends : sends[k].run = id /\ sends[k].text = <<"a">>

\* C8: every USER_START event (the only step that advances the turn) leaves the
\* buffered utterance text empty.
C8_StartClearsBuffer == [][turn' # turn => lastUserMessageRef' = Empty]_vars

C8_Witness ==
  /\ turn = 2
  /\ ~stopFired /\ ~endFired
  /\ lastUserMessageRef = Empty
  /\ \E i \in DOMAIN calls :
       calls[i].turn = 1 /\ calls[i].stage = "fetch" /\ Truthy(calls[i].query)

\* C9: every avatar.speak follows a searchKnowledge call of a USER_STOP handler
\* that has returned, carries the non-empty context that call returned, and is
\* the only one for that call.
C9_SpeakOnlyReturnedContext ==
  /\ \A k \in DOMAIN speakLog :
       /\ speakLog[k].call \in DOMAIN calls
       /\ LET c == calls[speakLog[k].call]
          IN  /\ c.handler = "USER_STOP"
              /\ c.stage \in {"speak", "done"}
              /\ Truthy(c.context)
              /\ speakLog[k].text = SpeakText(c.context)
  /\ \A j \in DOMAIN speakLog, k \in DOMAIN speakLog :
       speakLog[j].call = speakLog[k].call => j = k
  /\ \A i \in DOMAIN calls :
       (calls[i].stage \in {"fetch", "json"} \/ ~Truthy(calls[i].context))
         => \A k \in DOMAIN speakLog : speakLog[k].call # i

C9_Witness ==
  /\ Len(speakLog) = 1
  /\ \E i \in DOMAIN calls :
       /\ calls[i].handler = "USER_STOP"
       /\ calls[i].stage = "done"
       /\ calls[i].context = Empty
       /\ speakLog[1].call # i

\* C10: splitText never loops indefinitely: called with size <= overlap it
\* fails fast, and otherwise it terminates, so that in every call the loop body
\* runs at most once per character of the text.
C10_NeverLoopsIndefinitely == spIter <= Len(spText)

\* with a positive stride the loop ends within Len(text) executions
ValidStrideTerminates == (spSize > spOverlap) => spIter <= Len(spText)

\* splitText has returned from a call with size > overlap >= 0
ValidSplitDone == spPc = "done" /\ spSize > spOverlap /\ spOverlap >= 0

\* C11: for size > overlap >= 0 and a non-blank text shorter than size,
\* splitText returns exactly one chunk, the whole trimmed text.
C11_ShortTextOneChunk ==
  (ValidSplitDone /\ Len(spText) < spSize /\ Trim(spText) # Empty)
    => spChunks = <<Trim(spText)>>

\* the characters of str that are not white space, in order
RECURSIVE NonSpace(_)
NonSpace(str) ==
  IF str = Empty THEN Empty
  ELSE (IF IsSpace(Head(str)) THEN Empty ELSE <<Head(str)>>) \o NonSpace(Tail(str))

\* the chunks joined, every chunk after the first without the first `overlap`
\* characters, which it shares with its predecessor
RECURSIVE DropShared(_, _)
DropShared(chunks, overlap) ==
  IF chunks = << >> THEN Empty
  ELSE SubSeq(Head(chunks), overlap + 1, Len(Head(chunks)))
       \o DropShared(Tail(chunks), overlap)

DeOverlapped(chunks, overlap) ==
  IF chunks = << >> THEN Empty
  ELSE Head(chunks) \o DropShared(Tail(chunks), overlap)

\* the windows splitText cuts: one every size - overlap characters
WindowStarts(text, size, overlap) ==
  { k \in 0..(Len(text) - 1) : k % (size - overlap) = 0 }
Window(text, size, k) == SubSeq(text, k + 1, Min(k + size, Len(text)))

\* no window of the call starts or ends with white space
TrimRemovesNothing ==
  \A k \in WindowStarts(spText, spSize, spOverlap) :
    LET w == Window(spText, spSize, k)
    IN  ~IsSpace(w[1]) /\ ~IsSpace(w[Len(w)])

\* C12 as claimed: for size > overlap >= 0 the chunks, de-overlapped and
\* concatenated, give back the content of the text (its characters other than
\* white space, the reading most favourable to the claim).
C12_DeOverlapReconstructs ==
  ValidSplitDone =>
    NonSpace(DeOverlapped(spChunks, spOverlap)) = NonSpace(spText)

\* C12 as amended: for size > overlap >= 0 and a text none of whose windows
\* starts or ends with white space, the chunks, de-overlapped and concatenated,
\* are the text.
C12_DeOverlapReconstructsUntrimmed ==
  (ValidSplitDone /\ TrimRemovesNothing)
    => DeOverlapped(spChunks, spOverlap) = spText

C12_Witness ==
  /\ ValidSplitDone
  /\ TrimRemovesNothing
  /\ spText = <<"a", "SP", "b">>
  /\ spSize = 3 /\ spOverlap = 1
  /\ Len(spChunks) = 2

\* the records main of copy.js owes for the files extracted so far: for every
\* file whose extractor gave a text, one record per chunk of splitText
ChunkRecords(file, chunks) ==
  [n \in 1..Len(chunks) |-> VectorRecord(file, n - 1, chunks[n])]
RECURSIVE OwedRecords(_)
OwedRecords(seen) ==
  IF seen = << >> THEN << >>
  ELSE (IF Head(seen).ok
        THEN ChunkRecords(Head(seen).file,
                          SplitText(Head(seen).text, CHUNK_SIZE, CHUNK_OVERLAP))
        ELSE << >>)
       \o OwedRecords(Tail(seen))

\* the records of all upserts that completed, in order
RECURSIVE AllRecords(_)
AllRecords(ops) ==
  IF ops = << >> THEN << >> ELSE Head(ops).records \o AllRecords(Tail(ops))

\* a file of the folder that main skips: unsupported, or its extractor failed
Skipped(file) ==
  \/ ~Supported(file)
  \/ \E j \in 1..Len(gSeen) : gSeen[j].file = file /\ ~gSeen[j].ok
InFolder(file) == \E k \in 1..Len(gFolder) : gFolder[k] = file

\* C13: a file of unsupported kind, or one whose extraction fails, contributes
\* no vector record and does not abort the run: the step that extracts it does
\* not end the run in failure, and a run of copy.js that completes has
\* extracted every supported file and upserted exactly the records of the
\* files whose extraction gave a text.
C13_SkippedFileIsolated ==
  /\ [](gScript = "folder" =>
          /\ \A i \in 1..Len(gVectors) :
               \A k \in 1..Len(gFolder) :
                 Skipped(gFolder[k]) => gVectors[i].source # FileName(gFolder[k])
          /\ gPc = "done" =>
               /\ Len(gSeen) = Len(SupportedFiles(gFolder))
               /\ gVectors = OwedRecords(gSeen)
               /\ AllRecords(Upserts) = gVectors)
  /\ [][Len(gSeen') > Len(gSeen) => gPc' # "failed"]_vars

C13_Witness ==
  /\ gScript = "folder"
  /\ gPc = "done"
  /\ \E k \in 1..Len(gFolder) : ~Supported(gFolder[k])
  /\ \E j \in 1..Len(gSeen) : ~gSeen[j].ok
  /\ \E j \in 1..Len(gSeen) : gSeen[j].ok /\ Len(gSeen[j].text) = MidDocLen
  /\ Len(AllRecords(Upserts)) = 2

\* the positions in sends of the sends of handleSend invocation id
SendsOf(id) == { n \in 1..Len(sends) : sends[n].run = id }
\* the send of the try block of invocation id: its first
FirstSendOf(id) == sends[CHOOSE n \in SendsOf(id) : \A m \in SendsOf(id) : n <= m]
\* the search of invocation id returned a non-empty context
ReturnedContext(c) ==
  c.stage = "done" /\ c.reply.kind = "object" /\ c.reply.success = TRUE
                   /\ c.reply.context # Empty

C17_InterimOverwritesBuffer ==
  Truthy(interim) => lastUserMessageRef = interim

\* a second interim transcript of a turn, with another text than the first
C17_Witness ==
  /\ interim = <<"b">>
  /\ lastUserMessageRef = <<"b">>
  /\ \E n \in DOMAIN calls :
       calls[n].turn = turn /\ calls[n].handler = "USER_STOP" /\ calls[n].query = <<"a">>

\* C18: the handlers call the retrieval service and speak an auxiliary message
\* only in a voice session and for a non-empty utterance text: a text-only
\* session has no retrieval call and no auxiliary message, every retrieval
\* call carries a non-empty query, every auxiliary message follows a retrieval
\* call, and a USER_STOP that finds the buffer empty calls and speaks nothing.
C18_RetrievalOnlyVoiceWithText ==
  /\ [](/\ ~isVoice => (calls = << >> /\ speakLog = << >>)
        /\ \A n \in DOMAIN calls : Truthy(calls[n].query)
        /\ \A k \in DOMAIN speakLog : speakLog[k].call \in DOMAIN calls)
  /\ [][(stopFired' /\ ~stopFired /\ lastUserMessageRef = Empty)
          => (calls' = calls /\ speakLog' = speakLog)]_vars

\* a text-only session whose turn was committed by both events with text in
\* the buffer
C18_Witness ==
  /\ session = "active"
  /\ ~isVoice
  /\ stopFired /\ endFired
  /\ Truthy(lastUserMessageRef)
  /\ calls = << >>

\* a match that passes the relevance filter
Survives(match) == match.hasScore /\ match.score > Threshold

\* the texts of the surviving matches in the order of the store, each behind
\* its marker, the markers numbered from n on, entries separated by a newline
RECURSIVE MarkedFrom(_, _)
MarkedFrom(matches, n) ==
  IF matches = << >> THEN Empty
  ELSE IF Survives(Head(matches))
       THEN (IF n > 1 THEN <<"NL">> ELSE Empty)
            \o <<"NL", "NL", "LB", "K1", "K2", "K3", "K4">> \o IntToStr(n)
            \o <<"RB", ":", "SP">> \o Head(matches).text
            \o MarkedFrom(Tail(matches), n + 1)
       ELSE MarkedFrom(Tail(matches), n)

\* C19: the context is the texts of the surviving matches in the order the
\* store returned them, each prefixed with a marker numbered 1..k over the
\* survivors (cut to the context bound), and the returned match list has the
\* matches of the store in the same order.
C19_ContextInStoreOrder ==
  (rPc = "done" /\ rResp.success) =>
    /\ rResp.context =
         SubSeq(MarkedFrom(rMatches, 1), 1, Min(Len(MarkedFrom(rMatches, 1)), MaxContext))
    /\ Len(rResp.sources) = Len(rMatches)
    /\ \A k \in DOMAIN rMatches :
         /\ rResp.sources[k].text = rMatches[k].text
         /\ rResp.sources[k].score = (IF rMatches[k].hasScore THEN rMatches[k].score ELSE 0)

\* two survivors with a filtered match between them
C19_Witness ==
  /\ rPc = "done" /\ rResp.success
  /\ Len(rMatches) = 3
  /\ Survives(rMatches[1]) /\ ~Survives(rMatches[2]) /\ Survives(rMatches[3])
  /\ rMatches[1].text = <<"x">> /\ rMatches[3].text = <<"x">>
  /\ Count("LB", rResp.context) = 2

\* C20: the filter removes exactly the matches scored below the threshold: in
\* a context that was not cut, every match scored at or above the threshold,
\* the threshold itself included, has its entry.
C20_ThresholdScoreSurvives ==
  (rPc = "done" /\ rResp.success /\ Len(rResp.context) < MaxContext) =>
    Count("LB", rResp.context) =
      Cardinality({ k \in DOMAIN rMatches :
                      rMatches[k].hasScore /\ rMatches[k].score >= Threshold })

\* C15: when the embedding of a chunk fails the run fails and nothing is
\* written: no upsert has completed or is awaited while chunks are still being
\* embedded, and a run ended by an embedding failure has made no upsert.
C15_EmbedFailureWritesNothing ==
  /\ gPc \in {"embed", "embedText"} => Upserts = << >>
  /\ gReport.error = "embed" => (gPc = "failed" /\ Upserts = << >>)

\* the embedding fails in the second file, after the first was embedded
C15_Witness ==
  /\ gScript = "folder"
  /\ gReport.error = "embed"
  /\ gFile = 2
  /\ Len(gVectors) >= 1

\* C16: when a batch of the upsert loop fails after earlier batches were
\* written, the error that ends the run reports how many records were written.
C16_PartialIngestionReported ==
  (gPc = "failed" /\ gReport.error = "upsert" /\ Upserts # << >>) =>
    (gReport.hasCount /\ gReport.count = Written(Upserts))

\* positions of the completed calls of store operation op
OpsAt(op) == { k \in 1..Len(gOps) : gOps[k].op = op }
\* every createIndex that completed was followed by a completed wait
WaitedAfterCreate ==
  \A j \in OpsAt("createIndex") : \E m \in OpsAt("wait") : j < m

\* C21: createIndex is called only when listIndexes did not show the index,
\* at most once, and when the index was created no upsert is awaited or
\* completed before the wait after createIndex is over.
C21_SetupIdempotentAndOrdered ==
  /\ gPc = "createIndex" =>
       (~gIndexExists /\ OpsAt("createIndex") = {} /\ OpsAt("listIndexes") # {})
  /\ Cardinality(OpsAt("createIndex")) <= 1
  /\ gPc \in {"upsert", "upsertAll"} => WaitedAfterCreate
  /\ \A k \in OpsAt("upsert") :
       \A j \in OpsAt("createIndex") : \E m \in OpsAt("wait") : j < m /\ m < k

\* a run that created the index, waited and then upserted
C21_Witness ==
  /\ OpsAt("createIndex") # {}
  /\ OpsAt("upsert") # {}
  /\ WaitedAfterCreate
  /\ gPc = "done"

\* C22: on USER_END_MESSAGE the utterance text is the first non-empty of
\* detail.message, detail.text, event.message, in that order, and the buffered
\* interim text only when all three are empty.
C22_PayloadBeforeBuffer ==
  umPc = "done" =>
    /\ umDetailMessage # Empty => umResult = umDetailMessage
    /\ (umDetailMessage = Empty /\ umDetailText # Empty) => umResult = umDetailText
    /\ (umDetailMessage = Empty /\ umDetailText = Empty /\ umEventMessage # Empty)
         => umResult = umEventMessage
    /\ (umDetailMessage = Empty /\ umDetailText = Empty /\ umEventMessage = Empty)
         => umResult = umBuffer

\* event.message wins over a different buffered text
C22_Witness ==
  /\ umPc = "done"
  /\ umDetailMessage = Empty /\ umDetailText = Empty
  /\ umEventMessage = <<"c">> /\ umBuffer = <<"d">>
  /\ umResult = <<"c">>

\* C23: a run of copy.js that ends without failure has upserted every record
\* of vectors in exactly one batch, in order, no batch larger than 100 (nor
\* empty), and reports the number of records upserted; with no record it
\* makes no upsert and reports 0.
C23_BatchesCoverVectorsOnce ==
  (gScript = "folder" /\ gPc = "done") =>
    /\ AllRecords(Upserts) = gVectors
    /\ \A k \in 1..Len(Upserts) :
         1 <= Len(Upserts[k].records) /\ Len(Upserts[k].records) <= UpsertBatch
    /\ gReport.kind = "done" /\ gReport.hasCount
    /\ gReport.count = Written(Upserts)
    /\ gVectors = << >> => (Upserts = << >> /\ gReport.count = 0)

\* a run that needed two batches
C23_Witness ==
  /\ gScript = "folder" /\ gPc = "done"
  /\ Len(Upserts) = 2
  /\ Len(Upserts[1].records) = UpsertBatch
  /\ gReport.count = UpsertBatch + 1

\* C24: within one run no two records of vectors have the same id, whatever
\* the file names in the documents folder.
C24_DistinctRecordIds ==
  \A i \in 1..Len(gVectors) : \A j \in 1..Len(gVectors) :
    i # j => gVectors[i].id # gVectors[j].id

\* C25: the utterance text of a turn is fixed when the turn is committed: no
\* later step, USER_START and USER_TALKING_MESSAGE during the retrieval
\* included, changes the query or the turn of a retrieval call already made,
\* and what is spoken for a call is the context returned to that call.
C25_QuerySnapshotAtCommit ==
  /\ [](\A k \in DOMAIN speakLog :
          /\ speakLog[k].call \in DOMAIN calls
          /\ speakLog[k].turn = calls[speakLog[k].call].turn
          /\ speakLog[k].text =
               <<"NL", "NL", "LB", "K1", "K2", "K3", "K4", "RB", ":", "SP">>
                 \o calls[speakLog[k].call].context)
  /\ [][\A n \in DOMAIN calls :
          /\ n \in DOMAIN calls'
          /\ calls'[n].query = calls[n].query
          /\ calls'[n].turn = calls[n].turn
          /\ calls[n].stage \in {"speak", "done"} => calls'[n].context = calls[n].context]_vars

\* the context of a USER_STOP call for "a" was spoken after the buffer had
\* been cleared by the next USER_START and filled with "b"
C25_Witness ==
  \E k \in DOMAIN speakLog :
    /\ calls[speakLog[k].call].handler = "USER_STOP"
    /\ calls[speakLog[k].call].query = <<"a">>
    /\ calls[speakLog[k].call].turn < turn
    /\ speakLog[k].newest > speakLog[k].turn
    /\ lastUserMessageRef = <<"b">>

\* C26: every handleSend invocation with a non-blank message calls a send
\* function exactly once, whatever the knowledge search did, and isSearching
\* is false once no invocation is under way; an invocation with a blank
\* message sends nothing and searches nothing.
C26_ExactlyOneSendPerInvocation ==
  /\ \A id \in DOMAIN tCalls :
       /\ tCalls[id].stage = "blank" =>
            (SendsOf(id) = {} /\ tCalls[id].reply = NoReply)
       /\ tCalls[id].stage = "done" => Cardinality(SendsOf(id)) = 1
  /\ (\A id \in DOMAIN tCalls : tCalls[id].stage \in {"blank", "done"}) => ~isSearching

====
